---- MODULE Spec2Model ----
(***************************************************************************)
(* Model of ngcccbase: the order-based colouring kernel                    *)
(* (coloredcoinlib/colordef.py) and the UTXO store, synchronizer and       *)
(* query (utxodb.py).                                                      *)
(*                                                                         *)
(* Five specifications share the module's variables:                       *)
(*   SpecKernel   one execution of OBColorDefinition.run_kernel            *)
(*   SpecStore    the UTXO store and UTXOManager.update_address/update_all *)
(*   SpecQuery    UTXOQuery.get_utxos_for_address                          *)
(*   SpecCompose  OBColorDefinition.compose_tx_spec                        *)
(*   SpecDesc     ColorDefinition.from_color_desc                          *)
(* Each leaves the variables of the other components at their idle value.  *)
(***************************************************************************)
EXTENDS Integers, Sequences, FiniteSets, TLC

VARIABLES
    \* ---- run_kernel(self, tx, in_colorstates) ----
    tx,               \* [hash, inputs, outputs]: inputs/outputs are the .value's
    in_colorstates,   \* one entry per input: NoneCS or <<value, "">>
    genesis,          \* self.genesis: [txhash, outindex, height]
    pc,               \* position inside run_kernel
    ensured,          \* tx.ensure_input_values() (line 51) has returned
    out_index,        \* loop variable of line 53 (0-based, as in the code)
    inp_index,        \* line 45 (0-based)
    cur_value,        \* line 46
    colored,          \* line 47
    out_colorstates,  \* line 44
    \* ---- UTXOStore / UTXOManager ----
    store,            \* the rows of table utxo_data, in rowid order
    spc,              \* "idle", or "update_all" while its loop is running
    todo,             \* update_all: the registry addresses still to visit
    ret,              \* the last call: [op, raised, registry, log]
    presync,          \* what the store held when the running update_all was
                      \* called (line 273, before delete_all): RowsOf(store)
    \* ---- UTXOQuery ----
    cache,            \* model.ccc.colordata: outpoint -> its colorvalues
    q,                \* the last get_utxos_for_address call and its result
    \* ---- OBColorDefinition.compose_tx_spec ----
    comp,             \* the last compose_tx_spec call and its outcome
    \* ---- ColorDefinition.from_color_desc ----
    dsc               \* the last from_color_desc call and its outcome

kvars == <<tx, in_colorstates, genesis, pc, ensured, out_index, inp_index,
           cur_value, colored, out_colorstates>>

svars == <<store, spc, todo, ret, presync>>

qvars == <<cache, q>>

vars == <<kvars, svars, qvars, comp, dsc>>

(* what a component's actions leave alone *)
nonKernel == <<svars, qvars, comp, dsc>>
nonStore == <<kvars, qvars, comp, dsc>>
nonQuery == <<kvars, spc, todo, ret, presync, comp, dsc>>
nonCompose == <<kvars, svars, qvars, dsc>>
nonDesc == <<kvars, svars, qvars, comp>>

-----------------------------------------------------------------------------
(* Bounds *)
MaxIn == 2
MaxOut == 3
MaxValue == 2
MaxRows == 2      \* add_utxo is called directly only below this many rows;
                  \* the most rows of a store that is queried

-----------------------------------------------------------------------------
(* Helpers *)
SeqsUpTo(n, S) == UNION {[1..k -> S] : k \in 0..n}

RECURSIVE SumSeq(_)
SumSeq(s) == IF s = <<>> THEN 0 ELSE s[1] + SumSeq(Tail(s))

-----------------------------------------------------------------------------
(* Colorstates: Python None, or the pair (value, '') *)
NoneCS == <<>>
ColorState(v) == <<v, "">>

GenesisHash == "g"
TxHashesK == {"g", "t"}

is_genesis == tx.hash = genesis.txhash

(* The state on entry to run_kernel, the locals of lines 44-47 set.  The   *)
(* in_colorstates of an input is the colorstate of the output it spends,   *)
(* so a present one carries the input's value.                             *)
KernelEntry ==
    /\ tx \in [hash : TxHashesK,
               inputs : SeqsUpTo(MaxIn, 0..MaxValue),
               outputs : SeqsUpTo(MaxOut, 0..MaxValue)]
    /\ in_colorstates \in
         {cs \in [1..Len(tx.inputs) -> {NoneCS} \cup {ColorState(v) : v \in 0..MaxValue}] :
             \A i \in 1..Len(tx.inputs) : cs[i] \in {NoneCS, ColorState(tx.inputs[i])}}
    /\ genesis \in [txhash : {GenesisHash}, outindex : 0..(MaxOut - 1), height : {0}]
    /\ pc = "ensure"
    /\ ensured = FALSE
    /\ out_index = 0
    /\ inp_index = 0
    /\ cur_value = 0
    /\ colored = FALSE
    /\ out_colorstates = <<>>

(* line 51 with a failed resolution ignored: the walk starts all the same *)
KernelEnsure_NoAbort ==
    /\ pc = "ensure"
    /\ \E resolved \in BOOLEAN :
         /\ pc' = "for"
         /\ ensured' = resolved
    /\ UNCHANGED <<tx, in_colorstates, genesis, out_index, inp_index, cur_value,
                   colored, out_colorstates>>
    /\ UNCHANGED nonKernel

(* line 51: tx.ensure_input_values() resolves every input's value or raises *)
KernelEnsure ==
    /\ pc = "ensure"
    /\ \E resolved \in BOOLEAN :
         /\ pc' = IF resolved THEN "for" ELSE "raise_ensure"
         /\ ensured' = resolved
    /\ UNCHANGED <<tx, in_colorstates, genesis, out_index, inp_index, cur_value,
                   colored, out_colorstates>>
    /\ UNCHANGED nonKernel

(* KernelFor with the reset of line 55-56 taken at every output *)
KernelFor_ResetAlways ==
    /\ pc = "for"
    /\ out_index < Len(tx.outputs)
    /\ colored' = TRUE
    /\ pc' = "while"
    /\ UNCHANGED <<tx, in_colorstates, genesis, out_index, inp_index, cur_value,
                   out_colorstates>>
    /\ UNCHANGED <<ensured, nonKernel>>

(* lines 53-56: next output; a segment that starts aligned starts colored *)
KernelFor ==
    /\ pc = "for"
    /\ out_index < Len(tx.outputs)
    /\ colored' = IF cur_value = 0 THEN TRUE ELSE colored
    /\ pc' = "while"
    /\ UNCHANGED <<tx, in_colorstates, genesis, out_index, inp_index, cur_value,
                   out_colorstates>>
    /\ UNCHANGED <<ensured, nonKernel>>

(* KernelWhile with the loop condition of line 57 as cur_value <= o.value *)
KernelWhile_LE ==
    /\ pc = "while"
    /\ cur_value <= tx.outputs[out_index + 1]
    /\ IF inp_index >= Len(tx.inputs)
       THEN /\ pc' = "raise_IndexError"
            /\ UNCHANGED <<cur_value, colored, inp_index>>
       ELSE /\ cur_value' = cur_value + tx.inputs[inp_index + 1]
            /\ colored' = IF colored
                          THEN in_colorstates[inp_index + 1] # NoneCS
                          ELSE colored
            /\ inp_index' = inp_index + 1
            /\ pc' = "while"
    /\ UNCHANGED <<tx, in_colorstates, genesis, out_index, out_colorstates>>
    /\ UNCHANGED <<ensured, nonKernel>>

(* lines 57-61: one iteration of the while loop; tx.inputs[inp_index] past *)
(* the end of the inputs raises IndexError                                 *)
KernelWhile ==
    /\ pc = "while"
    /\ cur_value < tx.outputs[out_index + 1]
    /\ IF inp_index >= Len(tx.inputs)
       THEN /\ pc' = "raise_IndexError"
            /\ UNCHANGED <<cur_value, colored, inp_index>>
       ELSE /\ cur_value' = cur_value + tx.inputs[inp_index + 1]
            /\ colored' = IF colored
                          THEN in_colorstates[inp_index + 1] # NoneCS
                          ELSE colored
            /\ inp_index' = inp_index + 1
            /\ pc' = "while"
    /\ UNCHANGED <<tx, in_colorstates, genesis, out_index, out_colorstates>>
    /\ UNCHANGED <<ensured, nonKernel>>

(* KernelEmit without the genesis override of lines 64-65 *)
KernelEmit_NoOverride ==
    /\ pc = "while"
    /\ ~(cur_value < tx.outputs[out_index + 1])
    /\ colored' = colored
    /\ out_colorstates' =
         Append(out_colorstates,
                IF colored THEN ColorState(tx.outputs[out_index + 1]) ELSE NoneCS)
    /\ out_index' = out_index + 1
    /\ pc' = "for"
    /\ UNCHANGED <<tx, in_colorstates, genesis, inp_index, cur_value>>
    /\ UNCHANGED <<ensured, nonKernel>>

(* lines 63-70: genesis override, then the output's colorstate *)
KernelEmit ==
    /\ pc = "while"
    /\ ~(cur_value < tx.outputs[out_index + 1])
    /\ LET c == IF is_genesis /\ out_index = genesis.outindex THEN TRUE ELSE colored
       IN /\ colored' = c
          /\ out_colorstates' =
               Append(out_colorstates,
                      IF c THEN ColorState(tx.outputs[out_index + 1]) ELSE NoneCS)
    /\ out_index' = out_index + 1
    /\ pc' = "for"
    /\ UNCHANGED <<tx, in_colorstates, genesis, inp_index, cur_value>>
    /\ UNCHANGED <<ensured, nonKernel>>

(* line 71: return out_colorstates *)
KernelReturn ==
    /\ pc = "for"
    /\ out_index = Len(tx.outputs)
    /\ pc' = "done"
    /\ UNCHANGED <<tx, in_colorstates, genesis, out_index, inp_index, cur_value,
                   colored, out_colorstates>>
    /\ UNCHANGED <<ensured, nonKernel>>

-----------------------------------------------------------------------------
(* UTXOStore: table utxo_data, UNIQUE INDEX utxo_data_outpoint on          *)
(* (txhash, outindex).  A row is [address, txhash, outindex, value,        *)
(* script, scantime, commitment]; store holds the rows in rowid order.     *)

Addresses == {"a1", "a2"}
StoreTxHashes == {"t1", "t2"}
OutIndexes == {0, 1}
Times == {1, 2}              \* what int(time()) returns

(* An optional argument (scantime=None): <<>> when None, <<t>> when given *)
NoneArg == <<>>

HasOutpoint(st, txhash, outindex) ==
    \E k \in 1..Len(st) : st[k].txhash = txhash /\ st[k].outindex = outindex

(* add_utxo as INSERT OR REPLACE: the row of an outpoint already stored is *)
(* overwritten and nothing is raised                                       *)
add_utxo_Replace(st, address, txhash, outindex, value, script, scantime, commitment, t) ==
    LET row == [address |-> address, txhash |-> txhash, outindex |-> outindex,
                value |-> value, script |-> script,
                scantime |-> IF scantime = NoneArg \/ scantime[1] = 0
                             THEN t ELSE scantime[1],
                commitment |-> commitment]
        kept == SelectSeq(st, LAMBDA r : ~(r.txhash = txhash /\ r.outindex = outindex))
    IN [store |-> Append(kept, row), raised |-> FALSE]

(* lines 61-79: add_utxo; t is what int(time()) returns.  The INSERT of an *)
(* outpoint already in the unique index raises (sqlite3.IntegrityError)    *)
(* and inserts nothing.                                                    *)
add_utxo(st, address, txhash, outindex, value, script, scantime, commitment, t) ==
    LET row == [address |-> address, txhash |-> txhash, outindex |-> outindex,
                value |-> value, script |-> script,
                scantime |-> IF scantime = NoneArg \/ scantime[1] = 0
                             THEN t ELSE scantime[1],
                commitment |-> commitment]
    IN IF HasOutpoint(st, txhash, outindex)
       THEN [store |-> st, raised |-> TRUE]
       ELSE [store |-> Append(st, row), raised |-> FALSE]

(* lines 81-87: del_utxo *)
del_utxo(st, txhash, outindex) ==
    SelectSeq(st, LAMBDA r : ~(r.txhash = txhash /\ r.outindex = outindex))

(* delete_all that deletes nothing *)
delete_all_Noop(st) == st

(* lines 89-92: delete_all *)
delete_all(st) == <<>>

(* lines 94-98: get_all_utxos *)
get_all_utxos(st) == st

(* lines 100-104: UTXOStore.get_utxos_for_address *)
store_get_utxos_for_address(st, address) ==
    SelectSeq(st, LAMBDA r : r.address = address)

(* lines 106-110: get_utxos_for_tx *)
get_utxos_for_tx(st, txhash) ==
    SelectSeq(st, LAMBDA r : r.txhash = txhash)

-----------------------------------------------------------------------------
(* The external chain source.  An outpoint pays one script, hence one      *)
(* address: the fetch for an address returns UTXO objects (lines 171-182)  *)
(* of that address's outpoints only, each at most once, or fails.          *)
ChainOwner(txhash, outindex) == IF outindex = 0 THEN "a1" ELSE "a2"
ChainValue(txhash, outindex) == IF txhash = "t1" THEN 1 ELSE 2
ChainScript(txhash, outindex) == IF outindex = 0 THEN "script_a1" ELSE "script_a2"

UTXO(txhash, outindex, value, script) ==
    [txhash |-> txhash, outindex |-> outindex, value |-> value, script |-> script]

ChainUtxos(address) ==
    {UTXO(h, i, ChainValue(h, i), ChainScript(h, i)) :
        <<h, i>> \in {op \in StoreTxHashes \X OutIndexes :
                        ChainOwner(op[1], op[2]) = address}}

(* the sequences over S without repetition *)
DistinctSeqs(S) ==
    {sq \in SeqsUpTo(Cardinality(S), S) :
        \A i, j \in 1..Len(sq) : i # j => sq[i] # sq[j]}

(* lines 221-227: UTXOFetcher.get_for_address: a list of UTXO, or an error *)
FetchResults(address) ==
    {[ok |-> FALSE, utxos |-> <<>>]} \cup
    {[ok |-> TRUE, utxos |-> l] : l \in DistinctSeqs(ChainUtxos(address))}

(* lines 264-266: the loop over utxo_list; the first add_utxo that raises  *)
(* ends it.  ts[k] is int(time()) at the k-th insert.                      *)
RECURSIVE AddAll(_, _, _, _)
AddAll(st, address, utxo_list, ts) ==
    IF utxo_list = <<>>
    THEN [store |-> st, raised |-> FALSE]
    ELSE LET u == Head(utxo_list)
             r == add_utxo(st, address, u.txhash, u.outindex, u.value, u.script,
                           NoneArg, 0, Head(ts))
         IN IF r.raised
            THEN r
            ELSE AddAll(r.store, address, Tail(utxo_list), Tail(ts))

(* update_address that, when the fetch fails, deletes the address's rows *)
update_address_DropOnFail(st, address, fetch, ts) ==
    IF ~fetch.ok
    THEN [store |-> SelectSeq(st, LAMBDA r : r.address # address),
          raised |-> FALSE]
    ELSE [store |-> AddAll(st, address, fetch.utxos, ts).store, raised |-> FALSE]

(* update_address without the try/except of lines 261/267-268 *)
update_address_NoTry(st, address, fetch, ts) ==
    IF ~fetch.ok
    THEN [store |-> st, raised |-> TRUE]
    ELSE AddAll(st, address, fetch.utxos, ts)

(* lines 258-268: update_address: whatever is raised inside is caught and  *)
(* printed, nothing is raised to the caller                                *)
update_address(st, address, fetch, ts) ==
    IF ~fetch.ok
    THEN [store |-> st, raised |-> FALSE]
    ELSE [store |-> AddAll(st, address, fetch.utxos, ts).store, raised |-> FALSE]

(* a row as a fetched UTXO stored under an address: without scantime and     *)
(* commitment, which the fetch does not give                                 *)
StoredAs(address, u) ==
    [address |-> address, txhash |-> u.txhash, outindex |-> u.outindex,
     value |-> u.value, script |-> u.script]

RowsOf(st) ==
    {StoredAs(st[k].address, st[k]) : k \in 1..Len(st)}

LogEntry(address, fetch) ==
    [address |-> address, ok |-> fetch.ok, utxos |-> fetch.utxos]

Ret(op, raised, registry, log) ==
    [op |-> op, raised |-> raised, registry |-> registry, log |-> log]

-----------------------------------------------------------------------------
(* UTXOQuery.get_utxos_for_address *)

Outpoints == StoreTxHashes \X OutIndexes
Colors == {1, 2}             \* the color ids of real colors
ColorIds == {0} \cup Colors  \* 0 is the uncolored marker

(* a colorvalue is <<color_id, value>>: cv[0] of line 148 is cv[1] here *)
CvLists ==
    {[k \in 1..Len(ids) |-> <<ids[k], 1>>] : ids \in DistinctSeqs(Colors)}

(* cdata.get_colorvalues(color_id_set, txhash, outindex): the colorvalues   *)
(* the cache holds for the outpoint whose color id is in color_id_set        *)
get_colorvalues(cdata, color_id_set, txhash, outindex) ==
    SelectSeq(cdata[<<txhash, outindex>>], LAMBDA cv : cv[1] \in color_id_set)

(* lines 247-256: UTXOManager.get_utxos_for_address: a UTXO object per row  *)
(* of the address; colorvalues is None (lines 171-182)                       *)
manager_get_utxos_for_address(st, address) ==
    LET rows == store_get_utxos_for_address(st, address)
    IN [k \in 1..Len(rows) |->
          [txhash |-> rows[k].txhash, outindex |-> rows[k].outindex,
           value |-> rows[k].value, script |-> rows[k].script,
           colorvalues |-> NoneArg]]

(* the comparison of line 134 written against the list [0]: a set never     *)
(* equals a list                                                             *)
address_is_uncolored_List(addr_color_set) == FALSE

(* line 134 *)
address_is_uncolored(addr_color_set) == addr_color_set = {0}

(* lines 143-150: relevant(utxo).  `return False` belongs to the body of    *)
(* the for loop, so the loop ends in its first iteration.                    *)
relevant(utxo, color_set) ==
    LET cvl == IF utxo.colorvalues = NoneArg THEN <<>> ELSE utxo.colorvalues[1]
    IN IF cvl = <<>>
       THEN 0 \in color_set
       ELSE IF cvl[1][1] \in color_set THEN TRUE ELSE FALSE

(* lines 124-151: [result, lookups]: the list returned and the outpoints    *)
(* get_colorvalues was called for                                            *)
get_utxos_for_address(st, cdata, address, addr_color_set, color_set) ==
    LET all_utxos == manager_get_utxos_for_address(st, address)
        uncolored == address_is_uncolored(addr_color_set)
        resolved == [k \in 1..Len(all_utxos) |->
                       IF uncolored
                       THEN all_utxos[k]
                       ELSE [all_utxos[k] EXCEPT !.colorvalues =
                               <<get_colorvalues(cdata, addr_color_set,
                                                 all_utxos[k].txhash,
                                                 all_utxos[k].outindex)>>]]
    IN [result |-> IF uncolored
                   THEN resolved
                   ELSE SelectSeq(resolved, LAMBDA u : relevant(u, color_set)),
        lookups |-> IF uncolored
                    THEN <<>>
                    ELSE [k \in 1..Len(all_utxos) |->
                            <<all_utxos[k].txhash, all_utxos[k].outindex>>]]

QueryIdle ==
    /\ cache = [op \in Outpoints |-> <<>>]
    /\ q = [pc |-> "idle", address |-> "a1", addr_color_set |-> {}, color_set |-> {},
            result |-> <<>>, lookups |-> <<>>]


-----------------------------------------------------------------------------
(* OBColorDefinition.compose_tx_spec (colordef.py lines 73-99)             *)

MaxTargets == 2   \* the most spend targets of an operational request
RequiredFeeSize == 750       \* the argument of get_required_fee, line 87

Destinations == {"d1", "d2"}
FeeValues == {0, 1}          \* what get_required_fee returns
ChangeAddr == "chg"          \* what get_change_addr returns

(* op_tx_spec.get_targets(): spend targets, each the triple                *)
(* (value, color_id, destination); target[k] of the code is t[k + 1] here  *)
TargetLists == SeqsUpTo(MaxTargets, (1..MaxValue) \X ColorIds \X Destinations)

(* an optional value: <<>> when the code never computed it *)
NoValue == <<>>
NoDraft == <<>>

(* what a select_coins call does: it raises, or returns coins of the color *)
(* asked for whose total is the amount asked for plus extra                *)
SelectOutcomes == [ok : BOOLEAN, extra : 0..1]

(* op_tx_spec.select_coins(color_id, amount) -> (inputs, total) *)
select_coins(color_id, amount, outcome) ==
    LET total == amount + outcome.extra
    IN [raised |-> ~outcome.ok,
        inputs |-> IF total > 0
                   THEN <<[color_id |-> color_id, value |-> total]>>
                   ELSE <<>>,
        total |-> total]

Call(fn, bucket, color_id, amount) ==
    [fn |-> fn, bucket |-> bucket, color_id |-> color_id, amount |-> amount]

(* the loop of lines 76-83 with the else branch dropping the target        *)
(* instead of raising                                                      *)
partition_SkipUnknown(color_id, targets) ==
    [raised |-> FALSE,
     colored_targets |-> SelectSeq(targets, LAMBDA t : t[2] = color_id),
     uncolored_targets |->
         SelectSeq(targets, LAMBDA t : t[2] # color_id /\ t[2] = 0)]

(* lines 74-83: the targets split by target[1]; a target of any other      *)
(* color id raises when the loop reaches it, the targets before it split   *)
partition(color_id, targets) ==
    LET bad == {k \in 1..Len(targets) : targets[k][2] \notin {color_id, 0}}
        seen == IF bad = {}
                THEN targets
                ELSE SubSeq(targets, 1,
                            (CHOOSE k \in bad : \A j \in bad : k <= j) - 1)
    IN [raised |-> bad # {},
        colored_targets |-> SelectSeq(seen, LAMBDA t : t[2] = color_id),
        uncolored_targets |->
            SelectSeq(seen, LAMBDA t : t[2] # color_id /\ t[2] = 0)]

(* lines 84, 85: sum([target[2] for target in ts]).  target[2] is the      *)
(* third element of the triple, the destination, a string: sum() starts    *)
(* from 0 and 0 + a string raises TypeError.  The sum of no target is 0.   *)
sum_target2(ts) ==
    IF ts = <<>>
    THEN [raised |-> FALSE, value |-> 0]
    ELSE [raised |-> TRUE, value |-> 0]

(* lines 97-98: [TxOut(target[2]. target[0]) for target in ts]: the        *)
(* expression is the attribute `target` of target[2], the destination      *)
(* string, which has none: AttributeError at the first target              *)
txouts_of(ts) ==
    IF ts = <<>>
    THEN [raised |-> FALSE, txouts |-> <<>>]
    ELSE [raised |-> TRUE, txouts |-> <<>>]

(* the outcome of a call that raised `error` after the calls `calls` *)
Raised(error, calls, cn, un, ct, ut, fee, cts, uts) ==
    [error |-> error, calls |-> calls,
     colored_needed |-> cn, uncolored_needed |-> un,
     colored_total |-> ct, uncolored_total |-> ut, fee |-> fee,
     colored_targets |-> cts, uncolored_targets |-> uts, draft |-> NoDraft]

(* lines 73-99.  env is what the calls on op_tx_spec do: the outcomes of    *)
(* the two select_coins calls and the fee get_required_fee returns.         *)
compose_tx_spec(color_id, targets, env) ==
    LET p == partition(color_id, targets)
        cts == p.colored_targets
        uts == p.uncolored_targets
        cn == sum_target2(cts)                                   \* line 84
        un == sum_target2(uts)                                   \* line 85
        s1 == select_coins(color_id, cn.value, env.sel1)         \* line 86
        call1 == Call("select_coins", "colored", color_id, cn.value)
        fee == env.fee                                           \* line 87
        call2 == Call("get_required_fee", "fee", 0, RequiredFeeSize)
        s2 == select_coins(color_id, un.value + fee, env.sel2)   \* line 88
        call3 == Call("select_coins", "uncolored", color_id, un.value + fee)
        colored_change == s1.total - cn.value                    \* line 89
        cts2 == IF colored_change > 0                            \* lines 90-91
                THEN Append(cts, <<colored_change, color_id, ChangeAddr>>)
                ELSE cts
        call4 == IF colored_change > 0
                 THEN <<Call("get_change_addr", "colored", color_id, 0)>>
                 ELSE <<>>
        uncolored_change == s2.total - un.value - fee            \* line 92
        uts2 == IF uncolored_change > 0                          \* lines 93-94
                THEN Append(uts, <<uncolored_change, 0, ChangeAddr>>)
                ELSE uts
        call5 == IF uncolored_change > 0
                 THEN <<Call("get_change_addr", "uncolored", 0, 0)>>
                 ELSE <<>>
        calls == <<call1, call2, call3>> \o call4 \o call5
        txins == s1.inputs \o s2.inputs                          \* lines 95-96
        outs == txouts_of(cts2 \o uts2)                          \* lines 97-98
    IN IF p.raised
       THEN Raised("Exception", <<>>, NoValue, NoValue, NoValue, NoValue,
                   NoValue, cts, uts)
       ELSE IF cn.raised \/ un.raised
       THEN Raised("TypeError", <<>>,
                   IF cn.raised THEN NoValue ELSE <<cn.value>>, NoValue,
                   NoValue, NoValue, NoValue, cts, uts)
       ELSE IF s1.raised
       THEN Raised("select_coins", <<call1>>, <<cn.value>>, <<un.value>>,
                   NoValue, NoValue, NoValue, cts, uts)
       ELSE IF s2.raised
       THEN Raised("select_coins", <<call1, call2, call3>>, <<cn.value>>,
                   <<un.value>>, <<s1.total>>, NoValue, <<fee>>, cts, uts)
       ELSE IF outs.raised
       THEN Raised("AttributeError", calls, <<cn.value>>, <<un.value>>,
                   <<s1.total>>, <<s2.total>>, <<fee>>, cts2, uts2)
       ELSE [error |-> "", calls |-> calls,
             colored_needed |-> <<cn.value>>, uncolored_needed |-> <<un.value>>,
             colored_total |-> <<s1.total>>, uncolored_total |-> <<s2.total>>,
             fee |-> <<fee>>,
             colored_targets |-> cts2, uncolored_targets |-> uts2,
             draft |-> <<[txins |-> txins, txouts |-> outs.txouts]>>]   \* line 99

ComposeIdle == comp = [pc |-> "idle"]

-----------------------------------------------------------------------------
(* ColorDefinition.from_color_desc (colordef.py lines 3-4, 26-30, 102-112)  *)
(* A descriptor string is a sequence of symbols: the separator ":" and      *)
(* pieces of text that hold no separator; "1" is a decimal digit.           *)

MaxDescLen == 8   \* the most symbols of a descriptor
Symbols == {":", "obc", "x", "1"}
Digits == {"1"}
Descriptors == SeqsUpTo(MaxDescLen, Symbols)

(* str.split(':'): the pieces between the separators, empty ones included *)
RECURSIVE split(_)
split(str) ==
    IF \A k \in 1..Len(str) : str[k] # ":"
    THEN <<str>>
    ELSE LET k == CHOOSE i \in 1..Len(str) :
                     str[i] = ":" /\ \A j \in 1..(i - 1) : str[j] # ":"
         IN <<SubSeq(str, 1, k - 1)>> \o split(SubSeq(str, k + 1, Len(str)))

(* the number a string of decimal digits writes *)
RECURSIVE DecimalValue(_)
DecimalValue(str) ==
    IF str = <<>> THEN 0
    ELSE 10 * DecimalValue(SubSeq(str, 1, Len(str) - 1))
         + (IF str[Len(str)] = "1" THEN 1 ELSE 0)

(* int(str): ValueError unless str is a non-empty string of digits *)
int(str) ==
    IF str # <<>> /\ \A k \in 1..Len(str) : str[k] \in Digits
    THEN [raised |-> FALSE, value |-> DecimalValue(str)]
    ELSE [raised |-> TRUE, value |-> 0]

(* lines 3-4 *)
get_color_desc_code(color_desc) == split(color_desc)[1]

(* line 33 *)
class_code == <<"obc">>

(* lines 7, 9-11, 112: the class codes registered in cd_classes *)
cd_classes == {class_code}

NoObject == <<>>
Failed(error) == [error |-> error, obj |-> NoObject]

(* lines 35-38: OBColorDefinition(color_id, genesis) *)
OBColorDefinition(color_id, gen) ==
    [class |-> "OBColorDefinition", color_id |-> color_id, genesis |-> gen,
     starting_height |-> gen.height]

(* lines 102-110 with the first four fields taken and the rest ignored *)
OBColorDefinition_from_color_desc_Lenient(color_id, color_desc) ==
    LET fields == split(color_desc)
    IN IF Len(fields) < 4 THEN Failed("ValueError")
       ELSE IF fields[1] # class_code THEN Failed("Exception")
       ELSE IF int(fields[4]).raised \/ int(fields[3]).raised
       THEN Failed("ValueError")
       ELSE [error |-> "",
             obj |-> <<OBColorDefinition(color_id,
                          [txhash |-> fields[2],
                           height |-> int(fields[4]).value,
                           outindex |-> int(fields[3]).value])>>]

(* lines 102-110: OBColorDefinition.from_color_desc.  The unpacking of      *)
(* line 104 raises ValueError unless split yields exactly four fields.      *)
OBColorDefinition_from_color_desc(color_id, color_desc) ==
    LET fields == split(color_desc)
    IN IF Len(fields) # 4 THEN Failed("ValueError")
       ELSE IF fields[1] # class_code THEN Failed("Exception")
       ELSE IF int(fields[4]).raised \/ int(fields[3]).raised
       THEN Failed("ValueError")
       ELSE [error |-> "",
             obj |-> <<OBColorDefinition(color_id,
                          [txhash |-> fields[2],
                           height |-> int(fields[4]).value,
                           outindex |-> int(fields[3]).value])>>]

(* lines 26-30: ColorDefinition.from_color_desc; cd_classes[code] of an     *)
(* unregistered code raises KeyError                                        *)
from_color_desc(color_id, color_desc) ==
    LET code == get_color_desc_code(color_desc)
    IN IF code \notin cd_classes
       THEN Failed("KeyError")
       ELSE OBColorDefinition_from_color_desc(color_id, color_desc)

DescIdle == dsc = [pc |-> "idle"]

(* The store's variables when the store is not in use *)
StoreIdle ==
    /\ store = <<>>
    /\ spc = "idle"
    /\ todo = <<>>
    /\ ret = [op |-> "none", raised |-> FALSE, registry |-> <<>>, log |-> <<>>]
    /\ presync = {}

(* The kernel's variables when no kernel runs *)
KernelIdle ==
    /\ tx = [hash |-> "t", inputs |-> <<>>, outputs |-> <<>>]
    /\ in_colorstates = <<>>
    /\ genesis = [txhash |-> GenesisHash, outindex |-> 0, height |-> 0]
    /\ pc = "idle"
    /\ ensured = FALSE
    /\ out_index = 0
    /\ inp_index = 0
    /\ cur_value = 0
    /\ colored = FALSE
    /\ out_colorstates = <<>>

-----------------------------------------------------------------------------
(* Calls on the store and the manager.  update_all is the only call that   *)
(* takes several steps (one per registry address); the program is          *)
(* single-threaded, so no other call runs while it does.                   *)

(* the rows a caller passes to add_utxo directly *)
AddPayloads ==
    {[address |-> "a1", value |-> 1, script |-> "script_a1", commitment |-> 0],
     [address |-> "a2", value |-> 2, script |-> "script_a2", commitment |-> 1]}
ScantimeArgs == {NoneArg, <<0>>, <<1>>, <<2>>}

AddUtxo(address, txhash, outindex, value, script, scantime, commitment) ==
    /\ spc = "idle"
    /\ Len(store) < MaxRows
    /\ \E t \in Times :
         LET r == add_utxo(store, address, txhash, outindex, value, script,
                           scantime, commitment, t)
         IN /\ store' = r.store
            /\ ret' = Ret("add_utxo", r.raised, <<>>, <<>>)
    /\ UNCHANGED <<spc, todo, presync>>
    /\ UNCHANGED nonStore

DelUtxo(txhash, outindex) ==
    /\ spc = "idle"
    /\ store' = del_utxo(store, txhash, outindex)
    /\ ret' = Ret("del_utxo", FALSE, <<>>, <<>>)
    /\ UNCHANGED <<spc, todo, presync>>
    /\ UNCHANGED nonStore

DeleteAll ==
    /\ spc = "idle"
    /\ store' = delete_all(store)
    /\ ret' = Ret("delete_all", FALSE, <<>>, <<>>)
    /\ UNCHANGED <<spc, todo, presync>>
    /\ UNCHANGED nonStore

(* update_address called by itself *)
UpdateAddress(address) ==
    /\ spc = "idle"
    /\ \E fetch \in FetchResults(address) :
         \E ts \in [1..Len(fetch.utxos) -> Times] :
           LET r == update_address(store, address, fetch, ts)
           IN /\ store' = r.store
              /\ ret' = Ret("update_address", r.raised, <<address>>,
                            <<LogEntry(address, fetch)>>)
    /\ UNCHANGED <<spc, todo, presync>>
    /\ UNCHANGED nonStore

(* lines 273-275: update_all clears the store and reads the registry *)
UpdateAllStart ==
    /\ spc = "idle"
    /\ \E registry \in DistinctSeqs(Addresses) :
         /\ todo' = registry
         /\ ret' = Ret("update_all", FALSE, registry, <<>>)
    /\ presync' = RowsOf(store)
    /\ store' = delete_all(store)
    /\ spc' = "update_all"
    /\ UNCHANGED nonStore

(* lines 275-276: one iteration: update_address(address); an exception    *)
(* coming out of it would end update_all                                   *)
UpdateAllStep ==
    /\ spc = "update_all"
    /\ todo # <<>>
    /\ \E fetch \in FetchResults(Head(todo)) :
         \E ts \in [1..Len(fetch.utxos) -> Times] :
           LET r == update_address(store, Head(todo), fetch, ts)
               log == Append(ret.log, LogEntry(Head(todo), fetch))
           IN /\ store' = r.store
              /\ ret' = Ret("update_all", r.raised, ret.registry, log)
              /\ IF r.raised
                 THEN spc' = "idle" /\ todo' = <<>> /\ presync' = {}
                 ELSE spc' = "update_all" /\ todo' = Tail(todo)
                      /\ UNCHANGED presync
    /\ UNCHANGED nonStore

(* line 275: the loop has visited every address; update_all returns *)
UpdateAllReturn ==
    /\ spc = "update_all"
    /\ todo = <<>>
    /\ spc' = "idle"
    /\ presync' = {}
    /\ UNCHANGED <<store, todo, ret>>
    /\ UNCHANGED nonStore

StoreInit ==
    /\ StoreIdle
    /\ KernelIdle
    /\ QueryIdle
    /\ ComposeIdle
    /\ DescIdle

StoreNext ==
    \/ \E p \in AddPayloads, h \in StoreTxHashes, i \in OutIndexes, sc \in ScantimeArgs :
         AddUtxo(p.address, h, i, p.value, p.script, sc, p.commitment)
    \/ \E h \in StoreTxHashes, i \in OutIndexes : DelUtxo(h, i)
    \/ DeleteAll
    \/ \E a \in Addresses : UpdateAddress(a)
    \/ UpdateAllStart
    \/ UpdateAllStep
    \/ UpdateAllReturn

SpecStore == StoreInit /\ [][StoreNext]_vars

KernelNext ==
    \/ KernelEnsure
    \/ KernelFor
    \/ KernelWhile
    \/ KernelEmit
    \/ KernelReturn

KernelInit ==
    /\ KernelEntry
    /\ StoreIdle
    /\ QueryIdle
    /\ ComposeIdle
    /\ DescIdle

SpecKernel == KernelInit /\ [][KernelNext]_vars

-----------------------------------------------------------------------------
(* The query on a store and a cache of any content *)

(* a row of the store as update_address stores a chain UTXO *)
ChainRow(h, i) ==
    [address |-> ChainOwner(h, i), txhash |-> h, outindex |-> i,
     value |-> ChainValue(h, i), script |-> ChainScript(h, i),
     scantime |-> 1, commitment |-> 0]

(* a store of at most MaxRows rows, and a cache with any content for the   *)
(* outpoints stored (no other entry is ever looked up)                     *)
QueryInit ==
    /\ store \in {[k \in 1..Len(ops) |-> ChainRow(ops[k][1], ops[k][2])] :
                    ops \in {l \in DistinctSeqs(Outpoints) : Len(l) <= MaxRows}}
    /\ cache \in {c \in [Outpoints -> CvLists] :
                     \A op \in Outpoints :
                        ~HasOutpoint(store, op[1], op[2]) => c[op] = <<>>}
    /\ q = [pc |-> "idle", address |-> "a1", addr_color_set |-> {}, color_set |-> {},
            result |-> <<>>, lookups |-> <<>>]
    /\ spc = "idle"
    /\ todo = <<>>
    /\ ret = Ret("none", FALSE, <<>>, <<>>)
    /\ presync = {}
    /\ KernelIdle
    /\ ComposeIdle
    /\ DescIdle

(* UTXOQuery(model, color_set).get_utxos_for_address(address_rec) *)
QueryForAddress(address, addr_color_set, color_set) ==
    /\ q.pc = "idle"
    /\ LET r == get_utxos_for_address(store, cache, address, addr_color_set, color_set)
       IN q' = [pc |-> "done", address |-> address,
                addr_color_set |-> addr_color_set, color_set |-> color_set,
                result |-> r.result, lookups |-> r.lookups]
    /\ UNCHANGED <<store, cache>>
    /\ UNCHANGED nonQuery

QueryNext ==
    \E a \in Addresses, acs \in SUBSET ColorIds, cs \in SUBSET ColorIds :
        QueryForAddress(a, acs, cs)

SpecQuery == QueryInit /\ [][QueryNext]_vars

-----------------------------------------------------------------------------
(* One call of compose_tx_spec on a definition of color self.color_id *)
Compose ==
    /\ comp.pc = "idle"
    /\ \E color_id \in Colors, targets \in TargetLists,
          env \in [sel1 : SelectOutcomes, fee : FeeValues, sel2 : SelectOutcomes] :
         comp' = [pc |-> "done", color_id |-> color_id, targets |-> targets]
                    @@ compose_tx_spec(color_id, targets, env)
    /\ UNCHANGED nonCompose

ComposeInit ==
    /\ ComposeIdle
    /\ KernelIdle
    /\ StoreIdle
    /\ QueryIdle
    /\ DescIdle

ComposeNext == Compose

SpecCompose == ComposeInit /\ [][ComposeNext]_vars

-----------------------------------------------------------------------------
(* One call of ColorDefinition.from_color_desc *)
FromColorDesc ==
    /\ dsc.pc = "idle"
    /\ \E color_id \in Colors, color_desc \in Descriptors :
         dsc' = [pc |-> "done", color_id |-> color_id, color_desc |-> color_desc]
                   @@ from_color_desc(color_id, color_desc)
    /\ UNCHANGED nonDesc

DescInit ==
    /\ DescIdle
    /\ KernelIdle
    /\ StoreIdle
    /\ QueryIdle
    /\ ComposeIdle

DescNext == FromColorDesc

SpecDesc == DescInit /\ [][DescNext]_vars

-----------------------------------------------------------------------------
(* Properties of run_kernel *)

(* total value of the outputs returned as colored *)
ColoredOutValue ==
    SumSeq([i \in 1..Len(out_colorstates) |->
              IF out_colorstates[i] # NoneCS THEN tx.outputs[i] ELSE 0])

(* total value of the consumed inputs (index < inp_index) that are colored *)
ColoredInValueConsumed ==
    SumSeq([i \in 1..inp_index |->
              IF in_colorstates[i] # NoneCS THEN tx.inputs[i] ELSE 0])

(* C1: conservation: a returned run on a non-genesis transaction never has   *)
(* more colored output value than colored input value consumed.              *)
C1_Conservation ==
    (pc = "done" /\ ~is_genesis) => ColoredOutValue <= ColoredInValueConsumed

(* C2: a transaction whose inputs total less than its outputs never gets a   *)
(* result from run_kernel: the run aborts instead of returning.              *)
C2_InsufficientInputsAbort ==
    SumSeq(tx.inputs) < SumSeq(tx.outputs) => pc # "done"

(* C3: genesis minting: when run_kernel returns for the genesis transaction, *)
(* the colorstate of the designated output outputs[genesis.outindex] is      *)
(* (its value, ''), whatever the input colorstates are.                      *)
C3_GenesisMinting ==
    (pc = "done" /\ is_genesis /\ genesis.outindex < Len(tx.outputs)) =>
        out_colorstates[genesis.outindex + 1] =
            ColorState(tx.outputs[genesis.outindex + 1])

(* a returned genesis run whose inputs are all uncolored and whose           *)
(* designated output has a positive value and is colored                     *)
C3_Witness ==
    /\ pc = "done"
    /\ is_genesis
    /\ Len(tx.inputs) > 0
    /\ \A i \in 1..Len(tx.inputs) : in_colorstates[i] = NoneCS
    /\ genesis.outindex < Len(tx.outputs)
    /\ tx.outputs[genesis.outindex + 1] > 0
    /\ out_colorstates[genesis.outindex + 1] # NoneCS

(* the shape of C4: one input of value v, two outputs o0, o1 with            *)
(* 0 < o0 <= v and o1 <= v, not the genesis transaction                      *)
C4_Case ==
    /\ ~is_genesis
    /\ Len(tx.inputs) = 1
    /\ Len(tx.outputs) = 2
    /\ 0 < tx.outputs[1]
    /\ tx.outputs[1] <= tx.inputs[1]
    /\ tx.outputs[2] <= tx.inputs[1]

(* C4: alignment carry-over: in that shape the only input is consumed once,  *)
(* while output 0 is processed; at output 1 cur_value is the input's value,  *)
(* so colored is not reset and stays the input's status; the run returns     *)
(* both outputs colored if the input is colored and both absent if not.      *)
C4_AlignmentCarryOver ==
    (C4_Case /\ pc \notin {"ensure", "raise_ensure"}) =>
        /\ pc # "raise_IndexError"
        /\ inp_index <= 1
        /\ (out_index >= 1 =>
               /\ inp_index = 1
               /\ cur_value = tx.inputs[1]
               /\ colored = (in_colorstates[1] # NoneCS))
        /\ (pc = "done" =>
               out_colorstates =
                 IF in_colorstates[1] # NoneCS
                 THEN <<ColorState(tx.outputs[1]), ColorState(tx.outputs[2])>>
                 ELSE <<NoneCS, NoneCS>>)

(* a returned run of that shape with the input colored and both outputs      *)
(* colored, the second of them of positive value                             *)
C4_Witness ==
    /\ C4_Case
    /\ pc = "done"
    /\ in_colorstates[1] # NoneCS
    /\ tx.outputs[2] > 0
    /\ out_colorstates = <<ColorState(tx.outputs[1]), ColorState(tx.outputs[2])>>

-----------------------------------------------------------------------------
(* Properties of the UTXO store and the synchronizer *)

NoDuplicateOutpoint(st) ==
    \A j, k \in 1..Len(st) :
        (st[j].txhash = st[k].txhash /\ st[j].outindex = st[k].outindex) => j = k

(* C5: outpoint uniqueness: whatever calls are made, the store never holds  *)
(* two rows with the same (txhash, outindex); an add_utxo of an outpoint     *)
(* already stored raises to its caller and leaves the rows as they were, one *)
(* of an outpoint not stored does not raise.                                 *)
C5_OutpointUniqueness ==
    [][/\ NoDuplicateOutpoint(store)
       /\ NoDuplicateOutpoint(store')
       /\ \A p \in AddPayloads, h \in StoreTxHashes, i \in OutIndexes,
             sc \in ScantimeArgs :
            AddUtxo(p.address, h, i, p.value, p.script, sc, p.commitment) =>
               IF HasOutpoint(store, h, i)
               THEN ret'.raised /\ store' = store
               ELSE ~ret'.raised /\ Len(store') = Len(store) + 1]_vars

(* the last call was an add_utxo that raised, and the store holds a row *)
C5_Witness ==
    /\ ret.op = "add_utxo"
    /\ ret.raised
    /\ Len(store) >= 1

(* C6: UTXO round trip: add_utxo of a row whose outpoint is not stored makes *)
(* get_utxos_for_tx(txhash) return a row with exactly the seven values given *)
(* (the scantime too, whenever one is given); del_utxo(txhash, outindex)     *)
(* removes exactly the row of that outpoint, which get_utxos_for_tx then no  *)
(* longer returns, and changes nothing when the outpoint is not stored.      *)
C6_RoundTrip ==
    [][/\ \A p \in AddPayloads, h \in StoreTxHashes, i \in OutIndexes,
             sc \in ScantimeArgs :
            (AddUtxo(p.address, h, i, p.value, p.script, sc, p.commitment)
                /\ ~HasOutpoint(store, h, i)) =>
               LET got == get_utxos_for_tx(store', h)
               IN \E k \in 1..Len(got) :
                    /\ got[k].address = p.address
                    /\ got[k].txhash = h
                    /\ got[k].outindex = i
                    /\ got[k].value = p.value
                    /\ got[k].script = p.script
                    /\ (sc # NoneArg => got[k].scantime = sc[1])
                    /\ got[k].commitment = p.commitment
       /\ \A h \in StoreTxHashes, i \in OutIndexes :
            DelUtxo(h, i) =>
               LET got == get_utxos_for_tx(store', h)
               IN /\ \A k \in 1..Len(got) : got[k].outindex # i
                  /\ Len(store') = Len(store) - (IF HasOutpoint(store, h, i) THEN 1 ELSE 0)
                  /\ \A k \in 1..Len(store) :
                       (store[k].txhash # h \/ store[k].outindex # i) =>
                           \E m \in 1..Len(store') : store'[m] = store[k]
                  /\ (~HasOutpoint(store, h, i) => store' = store)]_vars

(* the UTXOs the fetches of the logged run returned, each under its address *)
FetchedIn(log) ==
    UNION {{StoredAs(log[n].address, log[n].utxos[k]) : k \in 1..Len(log[n].utxos)} :
              n \in {m \in 1..Len(log) : log[m].ok}}

UpdateAllCompleted ==
    /\ ret.op = "update_all"
    /\ spc = "idle"
    /\ ~ret.raised

(* C7: sync_all full reset: when update_all has completed, the rows of       *)
(* get_all_utxos are exactly the UTXOs fetched during that run, each under   *)
(* the address it was fetched for, once each; nothing older remains.         *)
C7_FullReset ==
    UpdateAllCompleted =>
        /\ RowsOf(get_all_utxos(store)) = FetchedIn(ret.log)
        /\ Len(get_all_utxos(store)) = Cardinality(FetchedIn(ret.log))

(* update_all completed over two addresses, one fetch returning two UTXOs    *)
(* and the other one, and the store holds those three rows                   *)
C7_Witness ==
    /\ UpdateAllCompleted
    /\ Len(ret.registry) = 2
    /\ Len(ret.log) = 2
    /\ Len(ret.log[1].utxos) = 2
    /\ Len(ret.log[2].utxos) = 1
    /\ Len(store) = 3

(* C8: per-address failure isolation: nothing is raised out of              *)
(* update_address or update_all; update_all visits every registry address   *)
(* in turn whatever failed before; and once it has completed, every address *)
(* whose fetch succeeded has each of its fetched UTXOs stored under it.      *)
C8_FailureIsolation ==
    /\ (ret.op \in {"update_address", "update_all"} => ~ret.raised)
    /\ (ret.op = "update_all" =>
          /\ (spc = "update_all" => ret.registry = [n \in 1..Len(ret.log) |-> ret.log[n].address] \o todo)
          /\ (spc = "idle" => ret.registry = [n \in 1..Len(ret.log) |-> ret.log[n].address])
          /\ \A n \in 1..Len(ret.log) :
               ret.log[n].ok =>
                 \A k \in 1..Len(ret.log[n].utxos) :
                   StoredAs(ret.log[n].address, ret.log[n].utxos[k]) \in RowsOf(store))

(* update_all completed although the fetch for its first address failed,    *)
(* and the UTXOs fetched for the second address are stored                   *)
C8_Witness ==
    /\ UpdateAllCompleted
    /\ Len(ret.log) = 2
    /\ ~ret.log[1].ok
    /\ ret.log[2].ok
    /\ Len(ret.log[2].utxos) = 2
    /\ Len(store) = 2

-----------------------------------------------------------------------------
(* Properties of UTXOQuery.get_utxos_for_address *)

(* the UTXOs of the queried address, in store order *)
QueriedUtxos == manager_get_utxos_for_address(store, q.address)

OutpointOf(u) == <<u.txhash, u.outindex>>

KeptByQuery(u) ==
    \E k \in 1..Len(q.result) : OutpointOf(q.result[k]) = OutpointOf(u)

(* C9: query filter: when the address's declared color set is not {0}, a    *)
(* UTXO of the address is kept if and only if one of its resolved           *)
(* colorvalues, at any position, has a color id in the requested set, or it *)
(* has no colorvalues and the requested set contains 0.                      *)
C9_QueryFilter ==
    (q.pc = "done" /\ q.addr_color_set # {0}) =>
        \A n \in 1..Len(QueriedUtxos) :
            LET u == QueriedUtxos[n]
                cvl == get_colorvalues(cache, q.addr_color_set, u.txhash, u.outindex)
            IN KeptByQuery(u) <=>
                 \/ \E k \in 1..Len(cvl) : cvl[k][1] \in q.color_set
                 \/ (cvl = <<>> /\ 0 \in q.color_set)

(* C10: uncolored-only fast path: when the address's declared color set is  *)
(* {0}, the query returns every UTXO stored for the address, in store       *)
(* order, and looks no colorvalue up, whatever the cache holds and whatever  *)
(* color set is requested.                                                   *)
C10_UncoloredFastPath ==
    (q.pc = "done" /\ q.addr_color_set = {0}) =>
        LET rows == SelectSeq(store, LAMBDA r : r.address = q.address)
        IN /\ Len(q.result) = Len(rows)
           /\ \A k \in 1..Len(rows) :
                 /\ q.result[k].txhash = rows[k].txhash
                 /\ q.result[k].outindex = rows[k].outindex
                 /\ q.result[k].value = rows[k].value
                 /\ q.result[k].script = rows[k].script
           /\ q.lookups = <<>>

(* a query for color set {1} at an address declaring {0} with two UTXOs     *)
(* stored and nothing in the cache returned both                             *)
C10_Witness ==
    /\ q.pc = "done"
    /\ q.addr_color_set = {0}
    /\ q.color_set = {1}
    /\ \A op \in Outpoints : cache[op] = <<>>
    /\ Len(QueriedUtxos) = 2
    /\ Len(q.result) = 2

(* the status a zero-value output is given according to C17 as stated: the  *)
(* reset of an aligned segment, else the status of the previous output      *)
CarriedStatus ==
    IF cur_value = 0 THEN TRUE ELSE out_colorstates[out_index] # NoneCS

(* C17 as stated: at an output of value 0 run_kernel consumes no input and  *)
(* the output's status is the status carried at that point: colored,        *)
(* (0, ''), when cur_value = 0, and the status left by the previous output  *)
(* when cur_value # 0.                                                      *)
C17_ZeroValueCarried ==
    [][(pc = "while" /\ tx.outputs[out_index + 1] = 0) =>
          /\ inp_index' = inp_index
          /\ cur_value' = cur_value
          /\ out_colorstates' =
                Append(out_colorstates,
                       IF CarriedStatus THEN ColorState(0) ELSE NoneCS)]_vars

(* C17: at an output of value 0 run_kernel consumes no input; the output    *)
(* comes out colored, (0, ''), when cur_value = 0 or when it is the         *)
(* designated output of the genesis transaction, and otherwise gets the     *)
(* status left by the previous output.                                      *)
C17_ZeroValueCarryOver ==
    [][(pc = "while" /\ tx.outputs[out_index + 1] = 0) =>
          /\ inp_index' = inp_index
          /\ cur_value' = cur_value
          /\ out_colorstates' =
                Append(out_colorstates,
                       IF (is_genesis /\ out_index = genesis.outindex)
                          \/ CarriedStatus
                       THEN ColorState(0) ELSE NoneCS)]_vars

(* a non-genesis run whose inputs are all uncolored: the first output, of   *)
(* value 0, comes out colored; the third, of value 0 and processed with     *)
(* cur_value = 1, gets the uncolored status of the second                   *)
C17_Witness ==
    /\ pc = "done"
    /\ ~is_genesis
    /\ tx.inputs = <<1>>
    /\ in_colorstates = <<NoneCS>>
    /\ tx.outputs = <<0, 1, 0>>
    /\ out_colorstates = <<ColorState(0), NoneCS, NoneCS>>

(* C18: no input is read and no output colorstate is produced before        *)
(* tx.ensure_input_values() has returned; when it fails, run_kernel stops   *)
(* there: no step follows and nothing is returned.                          *)
C18_ResolutionFirst ==
    [][/\ pc # "raise_ensure"
       /\ (\/ inp_index' # inp_index
           \/ cur_value' # cur_value
           \/ out_colorstates' # out_colorstates
           \/ pc' = "done") => ensured]_vars

(* the resolution failed for a transaction with inputs and outputs *)
C18_Witness ==
    /\ pc = "raise_ensure"
    /\ ~ensured
    /\ tx.inputs # <<>>
    /\ tx.outputs # <<>>
    /\ inp_index = 0
    /\ out_colorstates = <<>>

(* C19: in a returned run on the genesis transaction whose inputs are all   *)
(* uncolored, no output other than the one at genesis.outindex comes out    *)
(* colored with a positive value.                                           *)
C19_MintingConfined ==
    (/\ pc = "done"
     /\ is_genesis
     /\ \A i \in 1..Len(in_colorstates) : in_colorstates[i] = NoneCS) =>
        \A j \in 1..Len(out_colorstates) :
            (out_colorstates[j] # NoneCS /\ tx.outputs[j] > 0) =>
                j = genesis.outindex + 1

(* C15: after an update_address whose fetch succeeded, every UTXO of the     *)
(* fetched list is in the store under that address, whatever the store held *)
(* before the call.                                                         *)
C15_SyncCompleteness ==
    (ret.op = "update_address" /\ ret.log[1].ok) =>
        \A k \in 1..Len(ret.log[1].utxos) :
            StoredAs(ret.log[1].address, ret.log[1].utxos[k]) \in RowsOf(store)

(* the rows of st stored for the address / for the other addresses *)
RowsFor(st, address) == {r \in RowsOf(st) : r.address = address}
RowsNotFor(st, address) == {r \in RowsOf(st) : r.address # address}

(* this step is an update_address, called directly or by update_all, whose  *)
(* fetch fails                                                              *)
FailedFetchStep ==
    /\ ret'.log # <<>>
    /\ ~ret'.log[Len(ret'.log)].ok
    /\ \/ spc = "idle" /\ ret'.op = "update_address"
       \/ spc = "update_all" /\ ret'.log = Append(ret.log, ret'.log[Len(ret'.log)])

(* C16 as stated: when the fetch for an address fails during an             *)
(* update_address called directly or from update_all, the rows stored for   *)
(* that address before the synchronization started are still in the store   *)
(* afterwards, and the rows of other addresses are not altered by the       *)
(* failure.                                                                 *)
C16_StaleNotLost ==
    [][/\ FailedFetchStep =>
            LET a == ret'.log[Len(ret'.log)].address
            IN /\ RowsFor(store, a) \subseteq RowsOf(store')
               /\ RowsNotFor(store', a) = RowsNotFor(store, a)
       /\ spc' = "update_all" =>
            \A n \in 1..Len(ret'.log) :
                ~ret'.log[n].ok =>
                    {r \in presync' : r.address = ret'.log[n].address}
                        \subseteq RowsOf(store')]_vars

(* C16: an update_address whose fetch fails, called directly or from        *)
(* update_all, leaves the store exactly as it was when update_address was   *)
(* called: the rows stored before a direct call are all still there, and in *)
(* update_all the rows inserted for the addresses visited earlier in the    *)
(* run are not altered; what the store held before update_all was called    *)
(* is not kept, update_all starts by deleting every row.                    *)
C16_FailedFetchLeavesStore ==
    [][/\ FailedFetchStep => store' = store
       /\ (spc = "idle" /\ spc' = "update_all") => store' = <<>>]_vars

(* inside update_all: the first address's UTXOs were stored, the second     *)
(* address's fetch failed; the row the second address had before update_all *)
(* is gone, the first address's rows are there                              *)
C16_Witness ==
    /\ spc = "update_all"
    /\ Len(ret.log) = 2
    /\ ret.log[1].ok
    /\ ret.log[1].utxos # <<>>
    /\ ~ret.log[2].ok
    /\ RowsOf(store) = FetchedIn(ret.log)
    /\ \E r \in presync : r.address = ret.log[2].address /\ r \notin RowsOf(store)

-----------------------------------------------------------------------------
(* Properties of compose_tx_spec *)

(* some target of the call has a color id other than self.color_id and 0 *)
HasUnsupportedTarget ==
    \E k \in 1..Len(comp.targets) : comp.targets[k][2] \notin {comp.color_id, 0}

(* C11: a call of compose_tx_spec with a target of an unsupported color id, *)
(* at any position of the list, ends with the error of line 83, having made *)
(* no select_coins, get_required_fee or get_change_addr call and returning  *)
(* no draft.                                                                *)
C11_UnsupportedColorFatal ==
    (comp.pc = "done" /\ HasUnsupportedTarget) =>
        /\ comp.error = "Exception"
        /\ comp.calls = <<>>
        /\ comp.draft = NoDraft

(* the offending target is the last one, after a target of this color *)
C11_Witness ==
    /\ comp.pc = "done"
    /\ Len(comp.targets) = 2
    /\ comp.targets[1][2] = comp.color_id
    /\ comp.targets[2][2] \notin {comp.color_id, 0}
    /\ comp.error = "Exception"
    /\ comp.calls = <<>>

(* the sum of the value fields of the targets ts *)
SumValues(ts) == SumSeq([k \in 1..Len(ts) |-> ts[k][1]])

(* the targets of the call that have the color id `color` *)
TargetsOfColor(color) == SelectSeq(comp.targets, LAMBDA t : t[2] = color)

(* C12: for a call whose targets all have a supported color id and whose    *)
(* select_coins calls return at least the amount asked for, the colored     *)
(* amount needed is the sum of the values of this color's targets, the      *)
(* uncolored amount needed the sum of the values of the color-0 targets,    *)
(* and in a returned draft the colored bucket's outputs sum to the colored  *)
(* total selected and the uncolored bucket's outputs plus the fee to the    *)
(* uncolored total selected.                                                *)
C12_BucketAccounting ==
    (comp.pc = "done" /\ ~HasUnsupportedTarget /\ comp.error # "select_coins") =>
        /\ comp.colored_needed = <<SumValues(TargetsOfColor(comp.color_id))>>
        /\ comp.uncolored_needed = <<SumValues(TargetsOfColor(0))>>
        /\ comp.draft # NoDraft =>
              /\ SumValues(comp.colored_targets) = comp.colored_total[1]
              /\ SumValues(comp.uncolored_targets) + comp.fee[1]
                    = comp.uncolored_total[1]

(* C13: every call made for the colored bucket (coin selection, change      *)
(* address) names self.color_id and every call made for the uncolored       *)
(* bucket (coin selection for the uncolored need plus fee, change address)  *)
(* names the uncolored marker 0.                                            *)
C13_NoColorFabrication ==
    comp.pc = "done" =>
        \A k \in 1..Len(comp.calls) :
            /\ comp.calls[k].bucket = "colored" =>
                  comp.calls[k].color_id = comp.color_id
            /\ comp.calls[k].bucket = "uncolored" =>
                  comp.calls[k].color_id = 0

-----------------------------------------------------------------------------
(* Properties of from_color_desc *)

(* the positions of the separators of the descriptor of the call *)
Separators == {k \in 1..Len(dsc.color_desc) : dsc.color_desc[k] = ":"}

(* the text before the first separator *)
DescCode ==
    IF Separators = {}
    THEN dsc.color_desc
    ELSE SubSeq(dsc.color_desc, 1,
                (CHOOSE k \in Separators : \A j \in Separators : k <= j) - 1)

IsNumber(str) == str # <<>> /\ \A k \in 1..Len(str) : str[k] \in Digits

(* C14: from_color_desc fails and constructs nothing when the class code is *)
(* not registered or when an 'obc' descriptor does not have exactly four    *)
(* colon-separated fields; for 'obc:<txhash>:<outindex>:<height>' with      *)
(* numeric outindex and height it returns an order-based definition with    *)
(* the given color_id, the three fields as its genesis, and starting_height *)
(* equal to the height.                                                     *)
C14_DescriptorParsing ==
    dsc.pc = "done" =>
        /\ DescCode # <<"obc">> => dsc.error # "" /\ dsc.obj = NoObject
        /\ (DescCode = <<"obc">> /\ Cardinality(Separators) # 3) =>
              dsc.error # "" /\ dsc.obj = NoObject
        /\ \A i, j \in Separators :
              LET txhash == SubSeq(dsc.color_desc, 3, i - 1)
                  outindex == SubSeq(dsc.color_desc, i + 1, j - 1)
                  height == SubSeq(dsc.color_desc, j + 1, Len(dsc.color_desc))
              IN (/\ DescCode = <<"obc">>
                  /\ Separators = {2, i, j}
                  /\ 2 < i /\ i < j
                  /\ IsNumber(outindex) /\ IsNumber(height)) =>
                     /\ dsc.error = ""
                     /\ dsc.obj =
                          <<[class |-> "OBColorDefinition",
                             color_id |-> dsc.color_id,
                             genesis |-> [txhash |-> txhash,
                                          outindex |-> DecimalValue(outindex),
                                          height |-> DecimalValue(height)],
                             starting_height |-> DecimalValue(height)]>>

(* 'obc:x:1:11' parsed: outindex 1, height 11 *)
C14_Witness ==
    /\ dsc.pc = "done"
    /\ dsc.color_desc = <<"obc", ":", "x", ":", "1", ":", "1", "1">>
    /\ dsc.error = ""
    /\ dsc.obj[1].genesis = [txhash |-> <<"x">>, outindex |-> 1, height |-> 11]
    /\ dsc.obj[1].starting_height = 11

====
